---- MODULE Spec2Model ----
(***************************************************************************)
(* downloadcache: the gRPC Get handler of server/main.go and its two       *)
(* sibling variants (per-request WebDriver session, plain HTTP client).    *)
(* Every Get call is a goroutine; the shared state is the cache directory, *)
(* the urlLocks sync.Map, the mutexes stored in it and, in the variant of  *)
(* server/main.go, the one WebDriver session all requests drive.           *)
(***************************************************************************)
EXTENDS Naturals, Sequences, FiniteSets, TLC

\* ------------------------------------------------------------------ bounds

\* Number of clients calling Get at the same time.
NumCallers == 3
\* Number of those clients that call Get again after a call of theirs has returned;
\* the others call once.
NumRepeaters == 1
\* Number of distinct non-empty page versions a site may serve for one URL.
MaxVer == 1

\* Number of goroutines in the runs that request two different URLs.
NumKeyCallers == 2
\* Longest byte sequence written in the runs that exercise the store.
MaxBlobLen == 6

Callers == 1..NumCallers
KeyCallers == 1..NumKeyCallers
Repeaters == 1..NumRepeaters
Vers == 1..MaxVer

\* ------------------------------------------------------- identifiers, keys

\* Identifiers are strings, modelled as sequences of one-character strings: the
\* empty identifier, one that needs no escaping, one that does, and one that
\* spells the escaped form of another.
Urls == {<< >>, <<"a">>, <<"/">>, <<"%", "2", "F">>}
\* The identifiers of the runs that request two different URLs.
KeyUrls == {<<"a">>, <<"/">>}
\* The identifiers of the runs in which one URL spells the escaped form of the other.
EscUrls == {<<"/">>, <<"%", "2", "F">>}
\* Longest identifier for which the cache keys are compared.
MaxIdLen == 4
\* Every identifier up to MaxIdLen over the characters escaping writes or reads.
Ids == UNION {[1..n -> {"/", "%", "2", "F", "5"}] : n \in 0..MaxIdLen}
\* The identifiers of the runs in which all callers contend for one URL.
HotUrls == {<< >>, <<"a">>}

\* An escaping that leaves '%' as it is.
shouldEscapeSlashOnly(ch) == ch = "/"

\* net/url shouldEscape(c, encodePathSegment) over the model's alphabet:
\* letters and ':' are kept, '/' and '%' are escaped.
shouldEscape(ch) == ch \in {"/", "%"}

\* The two upper-case hex digits url.PathEscape writes after '%'.
hexOf(ch) == IF ch = "/" THEN <<"2", "F">> ELSE <<"2", "5">>

RECURSIVE PathEscape(_)
PathEscape(s) ==
    IF s = << >> THEN << >>
    ELSE (IF shouldEscape(Head(s)) THEN <<"%">> \o hexOf(Head(s)) ELSE <<Head(s)>>)
         \o PathEscape(Tail(s))

sanitizeURLForFilename(rawURL) == PathEscape(rawURL)

\* filepath.Join(s.cacheDir, cacheKey): the directory is fixed, the key names the file.
cacheFilePath(rawURL) == sanitizeURLForFilename(rawURL)

Paths == {cacheFilePath(u) : u \in Urls \ {<< >>}}

\* ------------------------------------------------------------ page content

\* The page a site serves for url u in its version v: the url, white space, and v
\* characters of text.
Page(u, v) == u \o <<" ">> \o [i \in 1..v |-> "x"]

\* What the fetch may deliver for u: one of its versions, or an empty document.
Pages(u) == {Page(u, v) : v \in Vers} \cup {<< >>}

\* The documents of the runs that exercise the store: every sequence of text and
\* white space up to MaxBlobLen bytes.
Blobs == UNION {[1..n -> {"x", " "}] : n \in 0..MaxBlobLen}

\* s.minifier.Bytes("text/html", b) on success: html.Minify drops the white space.
MinifyBytes(b) == SelectSeq(b, LAMBDA t : t # " ")

\* ------------------------------------------------------------- gzip stream

\* A gzip member is a 10-byte header, the deflate data and a trailer holding the
\* CRC-32 and the length of the uncompressed data. A file is the sequence of the
\* parts written so far; a part skipped over by a write at a later offset is a
\* hole of zero bytes.
GzHeader == <<"gzhdr">>

\* compress/flate: the shortest repetition worth a back-reference.
minMatchLength == 3

\* The deflate data is a sequence of tokens <<ch, dist, len>>: a literal ch
\* (dist = 0), or a copy of len bytes that start dist bytes back in the output.

\* How far the bytes from j on repeat at i, j < i; the copy may run into itself.
RECURSIVE matchLen(_, _, _)
matchLen(b, j, i) ==
    IF i > Len(b) \/ b[j] # b[i] THEN 0 ELSE 1 + matchLen(b, j + 1, i + 1)

\* The longest repetition at i of bytes seen before, and the nearest place of it.
bestLen(b, i) ==
    IF i = 1 THEN 0
    ELSE CHOOSE n \in 0..Len(b) :
            /\ \E j \in 1..(i - 1) : matchLen(b, j, i) = n
            /\ \A j \in 1..(i - 1) : matchLen(b, j, i) <= n
bestDist(b, i) ==
    CHOOSE d \in 1..(i - 1) :
        /\ matchLen(b, i - d, i) = bestLen(b, i)
        /\ \A e \in 1..(d - 1) : matchLen(b, i - e, i) < bestLen(b, i)

RECURSIVE deflateFrom(_, _)
deflateFrom(b, i) ==
    IF i > Len(b) THEN << >>
    ELSE IF bestLen(b, i) >= minMatchLength
         THEN <<<<"", bestDist(b, i), bestLen(b, i)>>>> \o deflateFrom(b, i + bestLen(b, i))
         ELSE <<<<b[i], 0, 1>>>> \o deflateFrom(b, i + 1)

\* A copy that takes the n bytes as one block of the output so far.
copyBlock(out, dist, n) ==
    out \o SubSeq(out, Len(out) + 1 - dist,
                  IF n > dist THEN Len(out) ELSE Len(out) - dist + n)

\* Copy n bytes that start dist bytes back, one at a time.
RECURSIVE copyBack(_, _, _)
copyBack(out, dist, n) ==
    IF n = 0 THEN out
    ELSE copyBack(Append(out, out[Len(out) + 1 - dist]), dist, n - 1)

RECURSIVE inflateInto(_, _)
inflateInto(out, toks) ==
    IF toks = << >> THEN out
    ELSE inflateInto(IF Head(toks)[2] = 0
                     THEN Append(out, Head(toks)[1])
                     ELSE copyBack(out, Head(toks)[2], Head(toks)[3]),
                     Tail(toks))

Deflate(b) == <<"deflate", deflateFrom(b, 1)>>
Inflate(d) == inflateInto(<< >>, d[2])
GzTrailer(b) == <<"crc", b, Len(b)>>
Hole == <<"zeros">>
GzipStream(b) == <<GzHeader, Deflate(b), GzTrailer(b)>>

\* No directory entry at the path.
NoFile == <<"ENOENT">>

\* os.Stat(path) returns a nil error.
StatOK(f) == f # NoFile

\* A write of part x at part offset i through a file descriptor of its own.
WriteAt(f, i, x) ==
    [j \in 1..(IF Len(f) > i THEN Len(f) ELSE i) |->
        IF j = i THEN x ELSE IF j <= Len(f) THEN f[j] ELSE Hole]

\* A reader that returns what it could inflate and drops the error of io.ReadAll.
readFromCacheUnchecked(f) ==
    /\ f # NoFile
    /\ Len(f) >= 2
    /\ f[1] = GzHeader
    /\ f[2] # Hole

\* readFromCache returns a nil error: os.Open finds the file, gzip.NewReader finds
\* the header, io.ReadAll inflates to the end of the data and verifies the trailer.
readFromCacheOK(f) ==
    /\ f # NoFile
    /\ Len(f) = 3
    /\ f[1] = GzHeader
    /\ f[2][1] = "deflate"
    /\ f[3] = GzTrailer(Inflate(f[2]))

\* The content readFromCache returns when it succeeds.
readFromCache(f) == Inflate(f[2])

\* --------------------------------------------------------------- responses

None == "none"
OK(content) == [code |-> "OK", content |-> content]
InvalidArgument == [code |-> "InvalidArgument", content |-> << >>]
Internal == [code |-> "Internal", content |-> << >>]
NoResult == [code |-> None, content |-> << >>]

\* HTTP variant, line 30: downloadTimeout = 0 * time.Second.
downloadTimeout == 0

\* No mutex.
NoMutex == << >>

\* The page a fresh WebDriver session shows.
BlankPage == <<"about:blank">>

VARIABLES
    pc,            \* per caller: position in Get / downloadAndCache / writeToCache
    url,           \* per caller: req.GetUrl()
    invalidate,    \* per caller: req.GetInvalidate()
    mutex,         \* per caller: the *sync.Mutex LoadOrStore returned
    bodyBytes,     \* per caller: the fetched bytes
    minifiedBytes, \* per caller: the bytes to cache and return
    result,        \* per caller: the response or status error returned
    urlLocks,      \* s.urlLocks: url -> mutex
    locked,        \* the set of mutexes that are locked
    files,         \* the cache directory: path -> file state
    wd,            \* the url the shared WebDriver session shows
    fetched,       \* per url: the external fetch has been invoked
    trouble        \* per url: "write" once a cache write failed or was lost, else
                   \* "fetch" once a fetch failed, else "none"

vars == <<pc, url, invalidate, mutex, bodyBytes, minifiedBytes, result,
          urlLocks, locked, files, wd, fetched, trouble>>

\* Variable groups an action leaves alone.
request == <<url, invalidate>>
locks == <<urlLocks, locked>>
locals == <<bodyBytes, minifiedBytes>>
counts == <<fetched, trouble>>

\* The mutexes some caller or the registry still points to.
LiveMutexes == {mutex[d] : d \in Callers} \cup {urlLocks[u] : u \in Urls} \cup locked

\* &sync.Mutex{}: a fresh allocation, distinct from every mutex still referenced.
NewMutex ==
    <<CHOOSE n \in 1..(NumCallers + Cardinality(Urls)) :
          /\ <<n>> \notin LiveMutexes
          /\ \A m \in 1..(n - 1) : <<m>> \in LiveMutexes>>

Init ==
    /\ pc = [c \in Callers |-> "idle"]
    /\ url = [c \in Callers |-> << >>]
    /\ invalidate = [c \in Callers |-> FALSE]
    /\ mutex = [c \in Callers |-> NoMutex]
    /\ bodyBytes = [c \in Callers |-> << >>]
    /\ minifiedBytes = [c \in Callers |-> << >>]
    /\ result = [c \in Callers |-> NoResult]
    /\ urlLocks = [u \in Urls |-> NoMutex]
    /\ locked = {}
    /\ files = [p \in Paths |-> NoFile]
    /\ wd = BlankPage
    /\ fetched = [u \in Urls |-> FALSE]
    /\ trouble = [u \in Urls |-> None]

\* The caller's step to position p.
Goto(c, p) == pc' = [pc EXCEPT ![c] = p]

\* A return that runs no deferred call.
ReturnWithoutDefers(c, r) ==
    /\ result' = [result EXCEPT ![c] = r]
    /\ bodyBytes' = [bodyBytes EXCEPT ![c] = << >>]
    /\ minifiedBytes' = [minifiedBytes EXCEPT ![c] = << >>]
    /\ Goto(c, "done")

\* A return statement of downloadAndCache with response r: the response is fixed,
\* the byte slices are dead, and the deferred calls run next.
Return(c, r) ==
    /\ result' = [result EXCEPT ![c] = r]
    /\ bodyBytes' = [bodyBytes EXCEPT ![c] = << >>]
    /\ minifiedBytes' = [minifiedBytes EXCEPT ![c] = << >>]
    /\ Goto(c, "DeferDelete")

\* ---------------------------------------------------------------------- Get

\* Get without the check for the empty URL.
GetUnchecked(c, u, inv) ==
    /\ pc[c] = "idle" \/ (pc[c] = "done" /\ c \in Repeaters)
    /\ url' = [url EXCEPT ![c] = u]
    /\ invalidate' = [invalidate EXCEPT ![c] = inv]
    /\ result' = [result EXCEPT ![c] = NoResult]
    /\ Goto(c, IF inv THEN "LoadOrStore" ELSE "GetRead")
    /\ UNCHANGED <<mutex, locals, locks, files, wd, counts>>

\* Get, lines 67-76 and 78: a new request; the empty-URL check, the cache key, and
\* the branch on Invalidate.
Get(c, u, inv) ==
    /\ pc[c] = "idle" \/ (pc[c] = "done" /\ c \in Repeaters)
    /\ url' = [url EXCEPT ![c] = u]
    /\ invalidate' = [invalidate EXCEPT ![c] = inv]
    /\ IF u = << >>
       THEN /\ result' = [result EXCEPT ![c] = InvalidArgument]
            /\ Goto(c, "done")
       ELSE /\ result' = [result EXCEPT ![c] = NoResult]
            /\ Goto(c, IF inv THEN "LoadOrStore" ELSE "GetRead")
    /\ UNCHANGED <<mutex, locals, locks, files, wd, counts>>

\* A first cache check that registers a mutex for the url before it returns a hit.
GetReadRegistered(c) ==
    /\ pc[c] = "GetRead"
    /\ LET f == files[cacheFilePath(url[c])] IN
       IF StatOK(f) /\ readFromCacheOK(f)
       THEN /\ result' = [result EXCEPT ![c] = OK(readFromCache(f))]
            /\ urlLocks' = [urlLocks EXCEPT ![url[c]] = IF @ = NoMutex THEN NewMutex ELSE @]
            /\ Goto(c, "done")
       ELSE /\ result' = result
            /\ urlLocks' = urlLocks
            /\ Goto(c, "LoadOrStore")
    /\ UNCHANGED <<request, mutex, locals, locked, files, wd, counts>>

\* Get, lines 79-87: os.Stat, then readFromCache. A readable entry is returned; a
\* missing entry or a read error falls through to the download. No entry is ever
\* removed, so a Stat that succeeded would succeed again at the time of the read.
GetRead(c) ==
    /\ pc[c] = "GetRead"
    /\ LET f == files[cacheFilePath(url[c])] IN
       IF StatOK(f) /\ readFromCacheOK(f)
       THEN /\ result' = [result EXCEPT ![c] = OK(readFromCache(f))]
            /\ Goto(c, "done")
       ELSE /\ result' = result
            /\ Goto(c, "LoadOrStore")
    /\ UNCHANGED <<request, mutex, locals, locks, files, wd, counts>>

\* --------------------------------------------------------- downloadAndCache

\* LoadOrStore on one registry key for all urls: a single global lock.
LoadOrStoreOneKey(c) ==
    /\ pc[c] = "LoadOrStore"
    /\ LET mu == IF urlLocks[<< >>] = NoMutex THEN NewMutex ELSE urlLocks[<< >>] IN
       /\ urlLocks' = [urlLocks EXCEPT ![<< >>] = mu]
       /\ mutex' = [mutex EXCEPT ![c] = mu]
    /\ Goto(c, "Lock")
    /\ UNCHANGED <<request, locals, result, locked, files, wd, counts>>

\* LoadOrStore if it were a plain Store: every caller installs a mutex of its own.
LoadOrStoreAsStore(c) ==
    /\ pc[c] = "LoadOrStore"
    /\ urlLocks' = [urlLocks EXCEPT ![url[c]] = NewMutex]
    /\ mutex' = [mutex EXCEPT ![c] = NewMutex]
    /\ Goto(c, "Lock")
    /\ UNCHANGED <<request, locals, result, locked, files, wd, counts>>

\* Lines 98-99: s.urlLocks.LoadOrStore(rawURL, &sync.Mutex{}).
LoadOrStore(c) ==
    /\ pc[c] = "LoadOrStore"
    /\ LET mu == IF urlLocks[url[c]] = NoMutex THEN NewMutex ELSE urlLocks[url[c]] IN
       /\ urlLocks' = [urlLocks EXCEPT ![url[c]] = mu]
       /\ mutex' = [mutex EXCEPT ![c] = mu]
    /\ Goto(c, "Lock")
    /\ UNCHANGED <<request, locals, result, locked, files, wd, counts>>

\* Line 100: mutex.Lock() blocks while the mutex is locked.
Lock(c) ==
    /\ pc[c] = "Lock"
    /\ mutex[c] \notin locked
    /\ locked' = locked \cup {mutex[c]}
    /\ Goto(c, "DoubleCheck")
    /\ UNCHANGED <<request, mutex, locals, result, urlLocks, files, wd, counts>>

\* A double-check that returns the read error of an entry it cannot read.
DoubleCheckReadErrorFatal(c) ==
    /\ pc[c] = "DoubleCheck"
    /\ LET f == files[cacheFilePath(url[c])] IN
       IF StatOK(f)
       THEN Return(c, IF readFromCacheOK(f) THEN OK(readFromCache(f)) ELSE Internal)
       ELSE /\ Goto(c, "Fetch")
            /\ UNCHANGED <<result, locals>>
    /\ invalidate' = [invalidate EXCEPT ![c] = FALSE]
    /\ UNCHANGED <<url, mutex, locks, files, wd, counts>>

\* A double-check that is skipped when the request says Invalidate.
DoubleCheckUnlessInvalidate(c) ==
    /\ pc[c] = "DoubleCheck"
    /\ LET f == files[cacheFilePath(url[c])] IN
       IF ~invalidate[c] /\ StatOK(f) /\ readFromCacheOK(f)
       THEN Return(c, OK(readFromCache(f)))
       ELSE /\ Goto(c, "Fetch")
            /\ UNCHANGED <<result, locals>>
    /\ invalidate' = [invalidate EXCEPT ![c] = FALSE]
    /\ UNCHANGED <<url, mutex, locks, files, wd, counts>>

\* Lines 105-111: os.Stat and readFromCache under the lock. A readable entry is
\* returned whatever Invalidate says; the request's flag is not looked at again.
DoubleCheck(c) ==
    /\ pc[c] = "DoubleCheck"
    /\ LET f == files[cacheFilePath(url[c])] IN
       IF StatOK(f) /\ readFromCacheOK(f)
       THEN Return(c, OK(readFromCache(f)))
       ELSE /\ Goto(c, "Fetch")
            /\ UNCHANGED <<result, locals>>
    /\ invalidate' = [invalidate EXCEPT ![c] = FALSE]
    /\ UNCHANGED <<url, mutex, locks, files, wd, counts>>

\* The fetch of the call is invoked.
FetchInvoked(c) ==
    fetched' = [fetched EXCEPT ![url[c]] = TRUE]

\* The fetch of the call failed: status.Errorf(codes.Internal, ...) is returned.
FetchFailed(c) ==
    /\ trouble' = [trouble EXCEPT ![url[c]] = IF @ = "write" THEN @ ELSE "fetch"]
    /\ Return(c, Internal)

\* The minifier's result used even when it failed: no fallback to the original.
MinifiedNoFallback(c, b) ==
    /\ bodyBytes' = [bodyBytes EXCEPT ![c] = b]
    /\ \/ minifiedBytes' = [minifiedBytes EXCEPT ![c] = MinifyBytes(b)]
       \/ minifiedBytes' = [minifiedBytes EXCEPT ![c] = << >>]
    /\ Goto(c, "WriteCreate")

\* Lines 128-135: the fetched bytes b go through the minifier; when it fails the
\* original bytes are used.
Minified(c, b) ==
    /\ bodyBytes' = [bodyBytes EXCEPT ![c] = b]
    /\ \/ minifiedBytes' = [minifiedBytes EXCEPT ![c] = MinifyBytes(b)]
       \/ minifiedBytes' = [minifiedBytes EXCEPT ![c] = b]
    /\ Goto(c, "WriteCreate")

\* wd.Get in a server that creates the cache file before it navigates.
WdGetAfterCreate(c) ==
    /\ pc[c] = "Fetch"
    /\ FetchInvoked(c)
    /\ files' = [files EXCEPT ![cacheFilePath(url[c])] = << >>]
    /\ \/ /\ wd' = url[c]
          /\ Goto(c, "PageSource")
          /\ UNCHANGED <<result, locals, trouble>>
       \/ /\ wd' \in {wd, url[c]}
          /\ FetchFailed(c)
    /\ UNCHANGED <<request, mutex, locks>>

\* server/main.go lines 115-117: s.wd.Get(rawURL) on the session all requests share.
\* A failed navigation may or may not have left the previous page.
WdGet(c) ==
    /\ pc[c] = "Fetch"
    /\ FetchInvoked(c)
    /\ \/ /\ wd' = url[c]
          /\ Goto(c, "PageSource")
          /\ UNCHANGED <<result, locals, trouble>>
       \/ /\ wd' \in {wd, url[c]}
          /\ FetchFailed(c)
    /\ UNCHANGED <<request, mutex, locks, files>>

\* server/main.go lines 122-135: after the sleep, s.wd.PageSource() returns the
\* source of whatever page the session shows now; the bytes are minified.
WdPageSource(c) ==
    /\ pc[c] = "PageSource"
    /\ \/ /\ \E b \in Pages(wd) : Minified(c, b)
          /\ UNCHANGED <<result, trouble>>
       \/ FetchFailed(c)
    /\ UNCHANGED <<request, mutex, locks, files, wd, fetched>>

\* HTTP variant, lines 115-131: the request is built with a context that expires
\* after downloadTimeout and sent. context.WithTimeout with a duration of zero
\* returns a context whose deadline has passed already, and Do fails on it with
\* "context deadline exceeded" before anything is sent. With a deadline ahead, a
\* transport error or a status other than 200 ends the call.
HttpDo(c) ==
    /\ pc[c] = "Fetch"
    /\ FetchInvoked(c)
    /\ IF downloadTimeout = 0
       THEN FetchFailed(c)
       ELSE \/ \E statusOK \in BOOLEAN :
                 IF statusOK
                 THEN /\ Goto(c, "ReadAll")
                      /\ UNCHANGED <<result, locals, trouble>>
                 ELSE FetchFailed(c)
            \/ FetchFailed(c)
    /\ UNCHANGED <<request, mutex, locks, files, wd>>

\* HTTP variant, lines 133-143: io.ReadAll(resp.Body); the bytes are minified.
\* No call gets here while downloadTimeout is zero.
HttpReadAll(c) ==
    /\ pc[c] = "ReadAll"
    /\ \/ /\ \E b \in Pages(url[c]) : Minified(c, b)
          /\ UNCHANGED <<result, trouble>>
       \/ FetchFailed(c)
    /\ UNCHANGED <<request, mutex, locks, files, wd, fetched>>

\* ------------------------------------------------------------- writeToCache

\* A write error returned to the caller instead of being logged.
WrittenOrFail(c, how) ==
    /\ trouble' = [trouble EXCEPT ![url[c]] = IF how = "ok" THEN @ ELSE "write"]
    /\ Return(c, IF how = "ok" THEN OK(minifiedBytes[c]) ELSE Internal)

\* What downloadAndCache does after writeToCache, lines 138-144: the outcome of the
\* write is logged and the content is returned.
Written(c, how) ==
    /\ trouble' = [trouble EXCEPT ![url[c]] = IF how = "ok" THEN @ ELSE "write"]
    /\ Return(c, OK(minifiedBytes[c]))

\* Lines 171-175: os.Create truncates or creates the file, or fails.
WriteCreate(c) ==
    /\ pc[c] = "WriteCreate"
    /\ \/ /\ files' = [files EXCEPT ![cacheFilePath(url[c])] = << >>]
          /\ Goto(c, "WriteHeader")
          /\ UNCHANGED <<result, locals, trouble>>
       \/ /\ files' = files
          /\ Written(c, "failed")
    /\ UNCHANGED <<request, mutex, locks, wd, fetched>>

\* Lines 177-181: gzipWriter.Write writes the gzip header to the file and buffers
\* the content in the compressor; its error is the one writeToCache returns.
WriteHeader(c) ==
    /\ pc[c] = "WriteHeader"
    /\ \/ /\ files' = [files EXCEPT ![cacheFilePath(url[c])] = WriteAt(@, 1, GzHeader)]
          /\ Goto(c, "WriteClose")
          /\ UNCHANGED <<result, locals, trouble>>
       \/ /\ files' = files
          /\ Written(c, "failed")
    /\ UNCHANGED <<request, mutex, locks, wd, fetched>>

\* Lines 175 and 178, deferred gzipWriter.Close() and file.Close(): the compressor is
\* flushed to the file and the trailer follows. An error here is dropped, and
\* writeToCache returns nil. A reader cannot tell the states in between from the
\* header-only file: it fails on each of them.
WriteClose(c) ==
    /\ pc[c] = "WriteClose"
    /\ \/ /\ files' = [files EXCEPT ![cacheFilePath(url[c])] =
                           WriteAt(WriteAt(@, 2, Deflate(minifiedBytes[c])),
                                   3, GzTrailer(minifiedBytes[c]))]
          /\ Written(c, "ok")
       \/ /\ files' = files
          /\ Written(c, "lost")
    /\ UNCHANGED <<request, mutex, locks, wd, fetched>>

\* The write at the grain of the writes to the file. Of a document too large for
\* the compressor's buffers, gzipWriter.Write (line 180) writes the header and the
\* first blocks of the deflate data; the deferred gzipWriter.Close (line 178)
\* writes the rest of the data with the end-of-stream mark, and then the trailer
\* in a write of its own.

\* The deflate data written so far: the first k tokens, with no end-of-stream mark.
Flushed(b, k) == <<"flushed", SubSeq(deflateFrom(b, 1), 1, k)>>

\* Line 180: gzipWriter.Write writes the header and a proper part of the data.
WriteBlocks(c) ==
    /\ pc[c] = "WriteHeader"
    /\ \E k \in 1..(Len(deflateFrom(minifiedBytes[c], 1)) - 1) :
          files' = [files EXCEPT ![cacheFilePath(url[c])] =
                        WriteAt(WriteAt(@, 1, GzHeader), 2, Flushed(minifiedBytes[c], k))]
    /\ Goto(c, "WriteClose")
    /\ UNCHANGED <<request, mutex, locals, result, locks, wd, counts>>

\* Line 178, deferred gzipWriter.Close(), first write: the compressor is flushed,
\* and the data in the file are complete. An error is dropped.
WriteData(c) ==
    /\ pc[c] = "WriteClose"
    /\ \/ /\ files' = [files EXCEPT ![cacheFilePath(url[c])] =
                           WriteAt(@, 2, Deflate(minifiedBytes[c]))]
          /\ Goto(c, "WriteTrailer")
          /\ UNCHANGED <<result, locals, trouble>>
       \/ /\ files' = files
          /\ Written(c, "lost")
    /\ UNCHANGED <<request, mutex, locks, wd, fetched>>

\* Line 178, deferred gzipWriter.Close(), second write: the CRC-32 and the length.
WriteTrailer(c) ==
    /\ pc[c] = "WriteTrailer"
    /\ \/ /\ files' = [files EXCEPT ![cacheFilePath(url[c])] =
                           WriteAt(@, 3, GzTrailer(minifiedBytes[c]))]
          /\ Written(c, "ok")
       \/ /\ files' = files
          /\ Written(c, "lost")
    /\ UNCHANGED <<request, mutex, locks, wd, fetched>>

\* ------------------------------------------------------------ deferred calls

\* A return that leaves the registry as it is.
DeferDeleteSkipped(c) ==
    /\ pc[c] = "DeferDelete"
    /\ urlLocks' = urlLocks
    /\ Goto(c, "DeferUnlock")
    /\ UNCHANGED <<request, mutex, locals, result, locked, files, wd, counts>>

\* Line 102, deferred: s.urlLocks.Delete(rawURL), run first, under the lock.
DeferDelete(c) ==
    /\ pc[c] = "DeferDelete"
    /\ urlLocks' = [urlLocks EXCEPT ![url[c]] = NoMutex]
    /\ Goto(c, "DeferUnlock")
    /\ UNCHANGED <<request, mutex, locals, result, locked, files, wd, counts>>

\* A return that leaves the mutex locked.
DeferUnlockSkipped(c) ==
    /\ pc[c] = "DeferUnlock"
    /\ locked' = locked
    /\ mutex' = [mutex EXCEPT ![c] = NoMutex]
    /\ Goto(c, "done")
    /\ UNCHANGED <<request, locals, result, urlLocks, files, wd, counts>>

\* Line 101, deferred: mutex.Unlock(), run last; the call returns.
DeferUnlock(c) ==
    /\ pc[c] = "DeferUnlock"
    /\ locked' = locked \ {mutex[c]}
    /\ mutex' = [mutex EXCEPT ![c] = NoMutex]
    /\ Goto(c, "done")
    /\ UNCHANGED <<request, locals, result, urlLocks, files, wd, counts>>

\* The steps of a call that every variant of the server shares.
Common(c) ==
    \/ GetRead(c)
    \/ LoadOrStore(c)
    \/ Lock(c)
    \/ DoubleCheck(c)
    \/ WriteCreate(c)
    \/ WriteHeader(c)
    \/ WriteClose(c)
    \/ DeferDelete(c)
    \/ DeferUnlock(c)

\* server/main.go, one WebDriver session for all requests; all callers request the
\* same URL (or the empty one).
Next ==
    \E c \in Callers :
        \/ \E u \in HotUrls, inv \in BOOLEAN : Get(c, u, inv)
        \/ Common(c)
        \/ WdGet(c)
        \/ WdPageSource(c)

Spec == Init /\ [][Next]_vars

\* server/main.go, with requests for different URLs.
NextKeys ==
    \E c \in KeyCallers :
        \/ \E u \in KeyUrls, inv \in BOOLEAN : Get(c, u, inv)
        \/ Common(c)
        \/ WdGet(c)
        \/ WdPageSource(c)

SpecKeys == Init /\ [][NextKeys]_vars

\* The fetch steps of both variants. Each variant's behaviours are among the
\* behaviours of this specification. HttpReadAll is left out: it is never enabled.
NextVariants ==
    \E c \in Callers :
        \/ \E u \in HotUrls, inv \in BOOLEAN : Get(c, u, inv)
        \/ Common(c)
        \/ WdGet(c)
        \/ WdPageSource(c)
        \/ HttpDo(c)

SpecVariants == Init /\ [][NextVariants]_vars

\* server/main.go, with no request but Get("a", false).
NextRepeat ==
    \E c \in Callers :
        \/ Get(c, <<"a">>, FALSE)
        \/ Common(c)
        \/ WdGet(c)
        \/ WdPageSource(c)

SpecRepeat == Init /\ [][NextRepeat]_vars

\* server/main.go, with requests for "/" and for "%2F".
NextEscaped ==
    \E c \in KeyCallers :
        \/ \E u \in EscUrls : Get(c, u, FALSE)
        \/ Common(c)
        \/ WdGet(c)
        \/ WdPageSource(c)

SpecEscaped == Init /\ [][NextEscaped]_vars

\* Every caller has just issued Get(id, false): all but the last for "a", the last
\* for "a" or for "/"; no further call is made.
InitLive ==
    \E u \in KeyUrls :
        /\ pc = [c \in Callers |-> "GetRead"]
        /\ url = [c \in Callers |-> IF c < NumCallers THEN <<"a">> ELSE u]
        /\ invalidate = [c \in Callers |-> FALSE]
        /\ mutex = [c \in Callers |-> NoMutex]
        /\ bodyBytes = [c \in Callers |-> << >>]
        /\ minifiedBytes = [c \in Callers |-> << >>]
        /\ result = [c \in Callers |-> NoResult]
        /\ urlLocks = [v \in Urls |-> NoMutex]
        /\ locked = {}
        /\ files = [p \in Paths |-> NoFile]
        /\ wd = BlankPage
        /\ fetched = [v \in Urls |-> FALSE]
        /\ trouble = [v \in Urls |-> None]

\* A step of caller c past the request itself, in the variant of server/main.go.
CallStep(c) == Common(c) \/ WdGet(c) \/ WdPageSource(c)

\* Every call of wd, of the minifier and of the file system returns, and a caller
\* whose mutex stays unlocked gets it: no caller that can take a step waits forever.
Fairness == \A c \in Callers : WF_vars(CallStep(c))

\* The store by itself: one caller, under the lock for url u, is about to call
\* writeToCache with the bytes b of a document whose minification failed; the
\* path has no file, or holds a longer entry.
InitStore ==
    \E u \in KeyUrls, b \in Blobs,
       old \in {NoFile, GzipStream([i \in 1..(MaxBlobLen + 1) |-> "x"])} :
        /\ pc = [c \in Callers |-> IF c = 1 THEN "WriteCreate" ELSE "idle"]
        /\ url = [c \in Callers |-> IF c = 1 THEN u ELSE << >>]
        /\ invalidate = [c \in Callers |-> FALSE]
        /\ mutex = [c \in Callers |-> IF c = 1 THEN <<1>> ELSE NoMutex]
        /\ bodyBytes = [c \in Callers |-> IF c = 1 THEN b ELSE << >>]
        /\ minifiedBytes = [c \in Callers |-> IF c = 1 THEN b ELSE << >>]
        /\ result = [c \in Callers |-> NoResult]
        /\ urlLocks = [v \in Urls |-> IF v = u THEN <<1>> ELSE NoMutex]
        /\ locked = {<<1>>}
        /\ files = [p \in Paths |-> IF p = cacheFilePath(u) THEN old ELSE NoFile]
        /\ wd = u
        /\ fetched = [v \in Urls |-> v = u]
        /\ trouble = [v \in Urls |-> None]

\* The one caller of the runs that exercise the store.
StoreCallers == {1}

\* The caller finishes the write and goes on calling Get, alone.
NextStore ==
    \E c \in StoreCallers :
        \/ \E u \in KeyUrls \cup {<< >>}, inv \in BOOLEAN : Get(c, u, inv)
        \/ Common(c)
        \/ WdGet(c)
        \/ WdPageSource(c)

SpecStore == InitStore /\ [][NextStore]_vars

\* Single flight: every caller has just issued Get(id, false) for the same id, which
\* has no cache entry, and no further call is made.
InitFlight ==
    /\ pc = [c \in Callers |-> "GetRead"]
    /\ url = [c \in Callers |-> <<"a">>]
    /\ invalidate = [c \in Callers |-> FALSE]
    /\ mutex = [c \in Callers |-> NoMutex]
    /\ bodyBytes = [c \in Callers |-> << >>]
    /\ minifiedBytes = [c \in Callers |-> << >>]
    /\ result = [c \in Callers |-> NoResult]
    /\ urlLocks = [u \in Urls |-> NoMutex]
    /\ locked = {}
    /\ files = [p \in Paths |-> NoFile]
    /\ wd = BlankPage
    /\ fetched = [u \in Urls |-> FALSE]
    /\ trouble = [u \in Urls |-> None]

NextFlight ==
    \E c \in Callers :
        \/ Common(c)
        \/ WdGet(c)
        \/ WdPageSource(c)

SpecFlight == InitFlight /\ [][NextFlight]_vars

\* The concurrent calls of InitLive, each taking its steps in the end.
SpecLive == InitLive /\ [][NextFlight]_vars /\ Fairness

\* A committed entry with a call still in flight. A first call for "a" failed in
\* its fetch and has returned; the second had loaded the first's mutex before the
\* deferred Delete, locked it after the Unlock, missed at the double-check and
\* fetched; the third stored a mutex of its own, fetched, wrote the entry and
\* has returned. The second is about to call writeToCache.
InitCommitted ==
    \E b2, b3 \in Pages(<<"a">>) :
    \E m2 \in {b2, MinifyBytes(b2)}, m3 \in {b3, MinifyBytes(b3)} :
        /\ pc = [c \in Callers |-> IF c = 2 THEN "WriteCreate" ELSE "done"]
        /\ url = [c \in Callers |-> <<"a">>]
        /\ invalidate = [c \in Callers |-> FALSE]
        /\ mutex = [c \in Callers |-> IF c = 2 THEN <<1>> ELSE NoMutex]
        /\ bodyBytes = [c \in Callers |-> IF c = 2 THEN b2 ELSE << >>]
        /\ minifiedBytes = [c \in Callers |-> IF c = 2 THEN m2 ELSE << >>]
        /\ result = [c \in Callers |-> IF c = 1 THEN Internal
                                       ELSE IF c = 2 THEN NoResult ELSE OK(m3)]
        /\ urlLocks = [u \in Urls |-> NoMutex]
        /\ locked = {<<1>>}
        /\ files = [p \in Paths |-> IF p = cacheFilePath(<<"a">>)
                                    THEN GzipStream(m3) ELSE NoFile]
        /\ wd = <<"a">>
        /\ fetched = [u \in Urls |-> u = <<"a">>]
        /\ trouble = [u \in Urls |-> IF u = <<"a">> THEN "fetch" ELSE None]

\* From there on as in Spec: every Get is issued after the entry was committed.
SpecCommitted == InitCommitted /\ [][Next]_vars

\* server/main.go with the cache write at the grain of its writes to the file:
\* two callers, both for "a".
NextPartial ==
    \E c \in KeyCallers :
        \/ \E inv \in BOOLEAN : Get(c, <<"a">>, inv)
        \/ GetRead(c)
        \/ LoadOrStore(c)
        \/ Lock(c)
        \/ DoubleCheck(c)
        \/ WdGet(c)
        \/ WdPageSource(c)
        \/ WriteCreate(c)
        \/ WriteHeader(c)
        \/ WriteBlocks(c)
        \/ WriteData(c)
        \/ WriteTrailer(c)
        \/ DeferDelete(c)
        \/ DeferUnlock(c)

SpecPartial == Init /\ [][NextPartial]_vars

\* ------------------------------------------------------------------ claims

\* Positions of a call: its fetch, its cache write, the whole cycle that runs under
\* the lock, and everything between mutex.Lock and mutex.Unlock.
FetchPcs == {"Fetch", "PageSource", "ReadAll"}
WritePcs == {"WriteCreate", "WriteHeader", "WriteClose", "WriteTrailer"}
CyclePcs == {"DoubleCheck"} \cup FetchPcs \cup WritePcs
LockedPcs == CyclePcs \cup {"DeferDelete", "DeferUnlock"}

\* The step in which caller c invokes the external fetch.
InvokesFetch(c) == pc[c] = "Fetch" /\ pc'[c] # "Fetch"

\* The calls that have returned content have returned the same content.
SameContent ==
    \A c, d \in Callers :
        /\ pc[c] = "done" /\ result[c].code = "OK"
        /\ pc[d] = "done" /\ result[d].code = "OK"
        => result[c].content = result[d].content

\* Every call that has returned has returned content.
AllOK == \A c \in Callers : pc[c] = "done" => result[c].code = "OK"

AllDone == \A c \in Callers : pc[c] = "done"

C2_MutualExclusion ==
    \A c, d \in Callers :
        c # d /\ pc[c] \in CyclePcs /\ pc[d] \in CyclePcs => url[c] # url[d]

\* C3 as stated: the deferred Delete removes the entry of the key only when no other
\* caller has loaded the mutex of that entry (to wait for it, hold it or lock it).
C3_ConditionalCleanup ==
    [][\A c \in Callers :
          pc[c] = "DeferDelete" /\ pc'[c] = "DeferUnlock" /\ urlLocks[url[c]] # NoMutex
          => \A d \in Callers \ {c} : mutex[d] # urlLocks[url[c]]]_vars

\* Caller d holds mutex m.
Holds(d, m) == mutex[d] = m /\ pc[d] \in LockedPcs

\* C4: a call that is under way and cannot take a step is waiting in mutex.Lock for
\* a mutex held by a call for the same url; a call for another url never blocks it.
C4_CrossKeyNonBlocking ==
    \A c \in Callers :
        pc[c] \notin {"idle", "done"} /\ ~ENABLED CallStep(c)
        => /\ pc[c] = "Lock"
           /\ \E d \in Callers \ {c} : url[d] = url[c] /\ Holds(d, mutex[c])

\* A call for one url acquires its lock while a call for the other url holds its own
\* lock, with its fetch in progress.
C4_Witness ==
    \E c, d \in Callers :
        /\ url[c] = <<"a">> /\ pc[c] = "DoubleCheck"
        /\ url[d] = <<"/">> /\ pc[d] = "PageSource"

\* The step in which caller c issues Get with the empty URL.
GetsEmpty(c) ==
    /\ pc[c] \in {"idle", "done"}
    /\ url'[c] = << >>
    /\ <<pc[c], url[c], invalidate[c], result[c]>>' # <<pc[c], url[c], invalidate[c], result[c]>>

\* C5: Get with the empty URL returns InvalidArgument and changes neither the cache
\* nor the lock registry nor anything the fetch or the write would touch.
C5_EmptyUrlRejected ==
    [][\A c \in Callers :
          GetsEmpty(c)
          => /\ result'[c] = InvalidArgument
             /\ pc'[c] = "done"
             /\ UNCHANGED <<files, urlLocks, locked, wd, fetched, trouble, mutex, locals>>]_vars

\* Get("", true) has been rejected while the cache holds an entry.
C5_Witness ==
    \E c \in Callers :
        /\ pc[c] = "done" /\ url[c] = << >> /\ invalidate[c] /\ result[c] = InvalidArgument
        /\ readFromCacheOK(files[cacheFilePath(<<"a">>)])

\* C6: an error is returned only out of the fetch, the step that returns it and the
\* steps of the fetch leave the cache as it is, as does every step of a call outside
\* writeToCache; a call inside writeToCache returns content; and the error stays the
\* result of the call while its deferred calls run.
C6_FailedFetchKeepsStore ==
    [][\A c \in Callers :
          /\ result'[c] = Internal /\ result[c] # Internal
             => pc[c] \in FetchPcs /\ pc'[c] = "DeferDelete" /\ files' = files
          /\ pc'[c] # pc[c] /\ pc[c] \notin WritePcs => files' = files
          /\ pc[c] \in WritePcs /\ pc'[c] \notin WritePcs => result'[c].code = "OK"
          /\ pc[c] \in {"DeferDelete", "DeferUnlock"} => result'[c] = result[c]]_vars

\* A call has returned the fetch error and there is no cache entry.
C6_Witness ==
    \E c \in Callers :
        /\ pc[c] = "done" /\ result[c] = Internal
        /\ files[cacheFilePath(url[c])] = NoFile

\* C7 as stated: a Get(id, true) that finds a readable entry under the lock does not
\* return it; the call goes on to the fetch, whose failure fails the request.
C7_InvalidateRefetches ==
    [][\A c \in Callers :
          /\ pc[c] = "DoubleCheck" /\ pc'[c] # "DoubleCheck"
          /\ invalidate[c]
          /\ readFromCacheOK(files[cacheFilePath(url[c])])
          => result'[c].code # "OK" /\ pc'[c] = "Fetch" /\ files' = files]_vars

\* C8 as stated, for the repeat: while no cache write of the id has failed or been
\* lost, a Get(id, false) answered from storage returns the bytes that every
\* Get for the id that has returned content returned.
C8_RepeatReturnsSame ==
    [][\A d \in Callers :
          /\ pc[d] = "GetRead" /\ pc'[d] = "done"
          /\ trouble[url[d]] # "write"
          => \A b \in Callers :
                pc[b] = "done" /\ url[b] = url[d] /\ result[b].code = "OK"
                => result'[d] = result[b]]_vars

\* C9: the bytes to cache and return are the minifier's output or, when it fails,
\* the fetched bytes themselves; in that case Get returns exactly the fetched bytes,
\* and what the call writes to the entry is the gzip data and trailer of exactly
\* those bytes, which reads back as those bytes.
C9_FailOpenTransform ==
    [][\A c \in Callers :
          /\ pc'[c] \in WritePcs
             => minifiedBytes'[c] \in {MinifyBytes(bodyBytes'[c]), bodyBytes'[c]}
          /\ pc[c] \in WritePcs /\ pc'[c] = "DeferDelete" /\ minifiedBytes[c] = bodyBytes[c]
             => result'[c] = OK(bodyBytes[c])
          /\ pc[c] = "WriteClose" /\ pc'[c] # "WriteClose" /\ files' # files
             /\ minifiedBytes[c] = bodyBytes[c]
             => LET f == files[cacheFilePath(url[c])]
                    g == files'[cacheFilePath(url[c])] IN
                /\ g[2] = Deflate(bodyBytes[c])
                /\ g[3] = GzTrailer(bodyBytes[c])
                /\ f = <<GzHeader>>
                   => readFromCacheOK(g) /\ readFromCache(g) = bodyBytes[c]]_vars

\* A call has returned the page as fetched, white space included, and the entry
\* holds exactly that.
C9_Witness ==
    \E c \in Callers :
        /\ pc[c] = "done"
        /\ result[c] = OK(Page(<<"a">>, 1))
        /\ files[cacheFilePath(<<"a">>)] = GzipStream(Page(<<"a">>, 1))

\* C10: whatever becomes of the cache write, the call returns the bytes it was about
\* to cache, with no error, and that stays its result while the deferred calls run.
C10_WriteFailureNotFatal ==
    [][\A c \in Callers :
          /\ pc[c] \in WritePcs /\ pc'[c] \notin WritePcs
             => /\ pc'[c] = "DeferDelete"
                /\ result'[c] = OK(minifiedBytes[c])
                /\ minifiedBytes[c] \in {MinifyBytes(bodyBytes[c]), bodyBytes[c]}
          /\ pc[c] \in {"DeferDelete", "DeferUnlock"} /\ result[c].code = "OK"
             => result'[c] = result[c]]_vars

\* A call has returned the minified page although its cache write failed: there is
\* no entry.
C10_Witness ==
    \E c \in Callers :
        /\ pc[c] = "done"
        /\ result[c] = OK(MinifyBytes(Page(<<"a">>, 1)))
        /\ trouble[<<"a">>] = "write"
        /\ files[cacheFilePath(<<"a">>)] = NoFile

\* C11 as stated: whenever a call reads the entry of its url, in Get or under the
\* lock, it finds no file or a complete gzip stream, never an empty or a partly
\* written file.
C11_WriteAtomicity ==
    [][\A c \in Callers :
          pc[c] \in {"GetRead", "DoubleCheck"} /\ pc'[c] # pc[c]
          => \/ files[cacheFilePath(url[c])] = NoFile
             \/ readFromCacheOK(files[cacheFilePath(url[c])])]_vars

\* C12 as stated: when the page source or the response body has been asked for and
\* the call is left with no bytes, it returns the fetch error; it does not go on
\* to writeToCache with an empty document.
C12_EmptyFetchFails ==
    [][\A c \in Callers :
          pc[c] \in {"PageSource", "ReadAll"} /\ pc'[c] # pc[c] /\ bodyBytes'[c] = << >>
          => pc'[c] = "DeferDelete" /\ result'[c] = Internal]_vars

KeysInjective ==
    \A id1, id2 \in Ids :
        (sanitizeURLForFilename(id1) = sanitizeURLForFilename(id2)) <=> (id1 = id2)

\* C14: the cache key is injective on the identifiers up to MaxIdLen; two calls
\* address the same file exactly if they are for the same url; and an entry that
\* reads back exists at the path of a url only if a fetch for that very url was
\* invoked, so no identifier is served another identifier's entry.
C14_KeyInjective ==
    /\ KeysInjective
    /\ \A c, d \in Callers :
          url[c] # << >> /\ url[d] # << >>
          => ((cacheFilePath(url[c]) = cacheFilePath(url[d])) <=> (url[c] = url[d]))
    /\ \A u \in Urls \ {<< >>} :
          readFromCacheOK(files[cacheFilePath(u)]) => fetched[u]

\* Calls for "/" and for "%2F" have both returned content and each url has an
\* entry of its own.
C14_Witness ==
    \E c, d \in Callers :
        /\ url[c] = <<"/">> /\ url[d] = <<"%", "2", "F">>
        /\ pc[c] = "done" /\ result[c].code = "OK"
        /\ pc[d] = "done" /\ result[d].code = "OK"
        /\ readFromCacheOK(files[<<"%", "2", "F">>])
        /\ readFromCacheOK(files[<<"%", "2", "5", "2", "F">>])

\* C15: a Get(id, true) goes from the request straight to LoadOrStore, without
\* reading the entry; from there it takes the lock and comes to the double-check;
\* and a double-check that finds a readable entry returns its content although
\* Invalidate is set, with no fetch invoked and the entry left as it is.
C15_InvalidateDefeated ==
    [][\A c \in Callers :
          /\ pc[c] \in {"idle", "done"} /\ pc'[c] # pc[c] /\ url'[c] # << >> /\ invalidate'[c]
             => pc'[c] = "LoadOrStore" /\ result'[c] = NoResult /\ files' = files
          /\ pc[c] = "LoadOrStore" /\ pc'[c] # pc[c] => pc'[c] = "Lock"
          /\ pc[c] = "Lock" /\ pc'[c] # pc[c]
             => pc'[c] = "DoubleCheck" /\ mutex[c] \in locked'
          /\ /\ pc[c] = "DoubleCheck" /\ pc'[c] # pc[c]
             /\ invalidate[c]
             /\ readFromCacheOK(files[cacheFilePath(url[c])])
             => /\ result'[c] = OK(readFromCache(files[cacheFilePath(url[c])]))
                /\ pc'[c] = "DeferDelete"
                /\ files' = files /\ fetched' = fetched /\ wd' = wd]_vars

\* A Get("a", true) holds the lock and is at the double-check, and the entry of
\* "a" holds the minified page.
C15_Witness ==
    \E c \in Callers :
        /\ pc[c] = "DoubleCheck" /\ invalidate[c] /\ url[c] = <<"a">>
        /\ mutex[c] \in locked
        /\ files[cacheFilePath(<<"a">>)] = GzipStream(MinifyBytes(Page(<<"a">>, 1)))

\* C16: the first cache check of a Get(id, false) can always be taken, whoever
\* holds a lock; when it finds a readable entry the call is done with the content
\* of the entry, holding no mutex, and the registry, the locks and the files are
\* as they were.
C16_FastPathBypass ==
    [][\A c \in Callers :
          /\ pc[c] = "GetRead" => ENABLED GetRead(c)
          /\ pc[c] = "GetRead" /\ pc'[c] = "done"
             => /\ readFromCacheOK(files[cacheFilePath(url[c])])
                /\ result'[c] = OK(readFromCache(files[cacheFilePath(url[c])]))
                /\ mutex'[c] = NoMutex
                /\ UNCHANGED <<urlLocks, locked, mutex, files, wd, fetched>>
          /\ pc[c] = "GetRead" /\ pc'[c] # pc[c]
                /\ readFromCacheOK(files[cacheFilePath(url[c])])
             => pc'[c] = "done"]_vars

\* A Get("a", false) is at its first check and the entry is readable, while
\* another call for "a" holds its lock and waits for the page source.
C16_Witness ==
    \E c, d \in Callers :
        /\ pc[c] = "GetRead" /\ url[c] = <<"a">>
        /\ readFromCacheOK(files[cacheFilePath(<<"a">>)])
        /\ pc[d] = "PageSource" /\ url[d] = <<"a">> /\ mutex[d] \in locked

\* The file at the path of c's url exists and cannot be read.
Unreadable(c) ==
    /\ StatOK(files[cacheFilePath(url[c])])
    /\ ~readFromCacheOK(files[cacheFilePath(url[c])])

\* C17: with an entry that exists and cannot be read, the first check goes on to
\* LoadOrStore and the double-check goes on to the fetch, neither with an error;
\* an error is returned out of the fetch only; after the fetch os.Create empties
\* the file, and the Close that writes onto the call's header leaves an entry that
\* reads back as the new content, which the call returns with no error.
C17_ReadErrorIsMiss ==
    [][\A c \in Callers :
          /\ pc[c] = "GetRead" /\ pc'[c] # pc[c] /\ Unreadable(c)
             => pc'[c] = "LoadOrStore" /\ result'[c] = NoResult
          /\ pc[c] = "DoubleCheck" /\ pc'[c] # pc[c] /\ Unreadable(c)
             => pc'[c] = "Fetch" /\ result'[c] = NoResult
          /\ result'[c] = Internal /\ result[c] # Internal => pc[c] \in FetchPcs
          /\ pc[c] = "WriteCreate" /\ pc'[c] = "WriteHeader"
             => files'[cacheFilePath(url[c])] = << >>
          /\ /\ pc[c] = "WriteClose" /\ pc'[c] # pc[c] /\ files' # files
             /\ files[cacheFilePath(url[c])] = <<GzHeader>>
             => /\ readFromCacheOK(files'[cacheFilePath(url[c])])
                /\ readFromCache(files'[cacheFilePath(url[c])]) = minifiedBytes[c]
                /\ result'[c] = OK(minifiedBytes[c])]_vars

\* The only call ever made is by caller 1; it is past the double-check, about to
\* fetch, and the file of "a" is what an earlier write of its own left: a header.
C17_Witness ==
    /\ pc[1] = "Fetch" /\ url[1] = <<"a">>
    /\ \A d \in Callers \ {1} : pc[d] = "idle"
    /\ Unreadable(1)
    /\ files[cacheFilePath(<<"a">>)] = <<GzHeader>>

\* Caller c is between its LoadOrStore and its deferred Delete.
Registered(c) == pc[c] \in {"Lock", "DeferDelete"} \cup CyclePcs

\* C18: every url with an entry in urlLocks has a caller between its LoadOrStore
\* and its deferred Delete for that url; with no call in progress the registry is
\* empty.
C18_RegistryBounded ==
    /\ \A u \in Urls :
          urlLocks[u] # NoMutex => \E c \in Callers : url[c] = u /\ Registered(c)
    /\ (\A c \in Callers : pc[c] \in {"idle", "done"})
       => \A u \in Urls : urlLocks[u] = NoMutex

\* All three callers have been through downloadAndCache for "a", one of them
\* with a failed fetch, and the registry is empty again.
C18_Witness ==
    /\ \A c \in Callers : pc[c] = "done" /\ url[c] = <<"a">>
    /\ \E c \in Callers : result[c] = Internal
    /\ \A u \in Urls : urlLocks[u] = NoMutex
    /\ fetched[<<"a">>]

\* C19: every mutex that is locked is held by a caller inside downloadAndCache; a
\* caller that is not in a call holds none; and a call returns only out of the
\* deferred Unlock, which leaves its mutex unlocked, or out of Get itself, where
\* it has no mutex.
C19_LockReleased ==
    [][/\ \A m \in locked' : \E c \in Callers : Holds(c, m)'
       /\ \A c \in Callers :
             /\ pc'[c] \in {"idle", "done"} => mutex'[c] = NoMutex
             /\ pc'[c] = "done" /\ pc[c] \notin {"done", "idle", "GetRead"}
                => pc[c] = "DeferUnlock" /\ mutex[c] \in locked /\ mutex[c] \notin locked'
             /\ pc[c] \in LockedPcs /\ pc'[c] \notin LockedPcs => pc[c] = "DeferUnlock"]_vars

\* Calls have returned on each exit: one with the fetch error, one with content
\* after a failed write, one with content read at the double-check; no mutex is
\* locked.
C19_Witness ==
    /\ \A c \in Callers : pc[c] = "done"
    /\ \E c, d \in Callers :
          /\ result[c] = Internal
          /\ result[d] = OK(MinifyBytes(Page(<<"a">>, 1)))
    /\ trouble[<<"a">>] = "write"
    /\ readFromCacheOK(files[cacheFilePath(<<"a">>)])
    /\ locked = {}

\* C20: a caller that waits for a locked mutex waits for one that a caller inside
\* downloadAndCache holds, and every call returns in the end.
C20_Progress ==
    /\ [](\A c \in Callers :
             pc[c] = "Lock" /\ mutex[c] \in locked
             => \E d \in Callers \ {c} : Holds(d, mutex[c]))
    /\ <>(\A c \in Callers : pc[c] = "done")

\* All calls have returned, the one for "/" among them, after a call for "a"
\* failed in its fetch and the others for "a" went on.
C20_Witness ==
    /\ \A c \in Callers : pc[c] = "done"
    /\ url[NumCallers] = <<"/">> /\ result[NumCallers].code = "OK"
    /\ result[1] = Internal
    /\ \E c \in Callers : url[c] = <<"a">> /\ result[c].code = "OK"

\* What a call for url u may return as content when the page is u's own: one of
\* the pages of u, minified or as fetched.
OwnContent(u) == Pages(u) \cup {MinifyBytes(b) : b \in Pages(u)}

\* C21 as stated, for the shared WebDriver session: when a call reads the page
\* source the session shows the page the call navigated to, the bytes it gets
\* are a page of its own url, and the content a call returns and the content
\* the entry of a url reads back as are pages of that url.
C21_ContentBelongsToId ==
    [][/\ \A c \in KeyCallers :
             /\ pc[c] = "PageSource" /\ pc'[c] # pc[c] => wd = url[c]
             /\ pc[c] = "PageSource" /\ pc'[c] = "WriteCreate"
                => bodyBytes'[c] \in Pages(url[c])
             /\ pc'[c] = "done" /\ result'[c].code = "OK"
                => result'[c].content \in OwnContent(url'[c])
       /\ \A u \in KeyUrls :
             readFromCacheOK(files'[cacheFilePath(u)])
             => readFromCache(files'[cacheFilePath(u)]) \in OwnContent(u)]_vars

\* The callers whose every call in a run from InitCommitted is issued after the
\* entry was committed: all but the one in flight.
LaterCallers == Callers \ {2}

\* C22 as stated: no step of a Get call issued after the entry of its url was
\* committed changes the file of that url while it holds a complete, readable
\* entry: no such call truncates it or writes it again.
C22_CommittedStable ==
    [][\A c \in LaterCallers :
          /\ pc[c] \in WritePcs /\ pc'[c] # pc[c]
          /\ readFromCacheOK(files[cacheFilePath(url[c])])
          => files'[cacheFilePath(url[c])] = files[cacheFilePath(url[c])]]_vars

\* A write of the entry of c's url by another call is in progress.
WriteInProgress(c) ==
    \E d \in KeyCallers \ {c} :
        url[d] = url[c] /\ pc[d] \in WritePcs \ {"WriteCreate"}

\* C23: the content of every successful response is a complete page of the
\* call's url, minified or as fetched; a read of the entry, in Get or under the
\* lock, either fails and the call goes on to the miss path with no response
\* yet, or returns the whole content of a stream that inflates to its
\* end-of-stream mark and matches its trailer; this holds as well while another
\* call is writing the entry.
C23_NoPartialContent ==
    [][\A c \in KeyCallers :
          /\ result'[c].code = "OK" => result'[c].content \in OwnContent(url'[c])
          /\ pc[c] \in {"GetRead", "DoubleCheck"} /\ pc'[c] # pc[c]
             => LET f == files[cacheFilePath(url[c])] IN
                \/ /\ pc'[c] = (IF pc[c] = "GetRead" THEN "LoadOrStore" ELSE "Fetch")
                   /\ result'[c] = NoResult
                \/ /\ pc'[c] = (IF pc[c] = "GetRead" THEN "done" ELSE "DeferDelete")
                   /\ Len(f) = 3 /\ f[1] = GzHeader /\ f[2][1] = "deflate"
                   /\ f[3] = GzTrailer(result'[c].content)
                   /\ result'[c] = OK(Inflate(f[2]))]_vars

\* A Get("a", false) is at its first check while another call has written the
\* header and the first token of the deflate data of the page of "a".
C23_Witness ==
    \E c \in KeyCallers :
        /\ pc[c] = "GetRead" /\ url[c] = <<"a">>
        /\ WriteInProgress(c)
        /\ files[cacheFilePath(<<"a">>)] = <<GzHeader, <<"flushed", <<<<"a", 0, 1>>>>>>>>

====
